---- MODULE Spec2Model ----
(***************************************************************************)
(* FixedLengthList<T, queueMax> (src/src/FixedLengthList.hpp): a list of   *)
(* at most queueMax elements kept in a fixed pool of slots.  Every slot    *)
(* carries a value and a forward pointer; the slots form two singly linked *)
(* chains, the stack of free slots (m_freeHead) and the list of used slots *)
(* (m_usedHead .. m_usedTail).                                             *)
(*                                                                         *)
(* Pointers to slots are modelled as indices into m_items, NULL as -1.     *)
(***************************************************************************)
EXTENDS Integers, Sequences, FiniteSets, TLC

\* Template parameter queueMax: the number of slots in the pool.
queueMax == 3

\* The element type T is modelled as the integers 1..MaxVal.
MaxVal == 2

NULL == -1

Slots == 0 .. (queueMax - 1)

\* Two threads share one container.
Threads == {1, 2}

Ptrs == Slots \cup {NULL}

Values == 1 .. MaxVal

VARIABLES
    m_item,      \* m_items[s].m_item
    m_forward,   \* m_items[s].m_forward
    m_freeHead,
    m_usedHead,
    m_usedTail,
    m_usedCount,
    out,         \* the caller's location handed to pop/dequeue as p_item
    ret_val,     \* value returned by the last call of a bool method
    op,          \* history: name of the last operation
    arg,         \* history: its value argument (0 when it has none)
    pre,         \* history: container and out as they were before it
    abs,         \* abstract sequence of the used-list's values
    abs_ret,     \* abstract result of the last operation
    abs_out,     \* abstract content of the output location
    mon,         \* insert/dequeue run monitor: "fill", "drain" or "off"
    fill,        \* the inserts of the current run, in call order
    drun,        \* values dequeued in the current run, in call order
    init_items,  \* history: the values handed to the constructor, while
                 \* the constructor is the last operation
    it,          \* FixedLengthListIter::m_item of the client's iterator
    it_valid,    \* history: it came from begin() and no mutating call followed
    walk,        \* history: the slots it has passed since begin()
    crashed,     \* the program has stopped on a NULL dereference
    thr,         \* per thread: position in its call, the call, its locals
    overlap      \* history: a thread stepped while another was inside a call

container == <<m_item, m_forward, m_freeHead, m_usedHead, m_usedTail, m_usedCount>>

history == <<op, arg, pre, abs, abs_ret, abs_out, mon, fill, drun, init_items>>

vars == <<m_item, m_forward, m_freeHead, m_usedHead, m_usedTail, m_usedCount,
          out, ret_val, op, arg, pre, abs, abs_ret, abs_out, mon, fill, drun,
          init_items, it, it_valid, walk, crashed, thr, overlap>>

-----------------------------------------------------------------------------
(* Observation of the linked structure.                                    *)

\* The slots met from p along forward links, giving up after n steps.
RECURSIVE ChainFrom(_, _, _)
ChainFrom(fwd, p, n) ==
    IF p = NULL \/ n = 0
    THEN <<>>
    ELSE <<p>> \o ChainFrom(fwd, fwd[p], n - 1)

\* One step more than there are slots: a cycle shows as an overlong chain.
Chain(fwd, p) == ChainFrom(fwd, p, queueMax + 1)

SeqRange(s) == {s[k] : k \in 1 .. Len(s)}

UsedChain == Chain(m_forward, m_usedHead)

FreeChain == Chain(m_forward, m_freeHead)

UsedValues == [k \in 1 .. Len(UsedChain) |-> m_item[UsedChain[k]]]

Snapshot ==
    [m_item |-> m_item, m_forward |-> m_forward, m_freeHead |-> m_freeHead,
     m_usedHead |-> m_usedHead, m_usedTail |-> m_usedTail,
     m_usedCount |-> m_usedCount, out |-> out,
     ret_val |-> ret_val, op |-> op, arg |-> arg]

PreUsedChain == Chain(pre.m_forward, pre.m_usedHead)

PreFreeChain == Chain(pre.m_forward, pre.m_freeHead)

PreUsedValues == [k \in 1 .. Len(PreUsedChain) |-> pre.m_item[PreUsedChain[k]]]

Reverse(s) == [k \in 1 .. Len(s) |-> s[Len(s) + 1 - k]]

\* Position of the first occurrence of v in s, 0 when there is none.
FirstIndex(s, v) ==
    IF \E k \in 1 .. Len(s) : s[k] = v
    THEN CHOOSE k \in 1 .. Len(s) : s[k] = v /\ \A j \in 1 .. (k - 1) : s[j] # v
    ELSE 0

RemoveAt(s, k) == [j \in 1 .. (Len(s) - 1) |-> IF j < k THEN s[j] ELSE s[j + 1]]

-----------------------------------------------------------------------------
(* Construction.                                                           *)

\* clear's loop without the assignment of line 354 that ends the chain.
RECURSIVE clear_loop_open_end(_, _, _)
clear_loop_open_end(fwd, p, i) ==
    IF i > 0
    THEN clear_loop_open_end([fwd EXCEPT ![p] = p + 1], p + 1, i - 1)
    ELSE fwd

\* clear(): the loop of lines 346-353 run from slot p with i iterations left.
RECURSIVE clear_loop(_, _, _)
clear_loop(fwd, p, i) ==
    IF i > 0
    THEN clear_loop([fwd EXCEPT ![p] = p + 1], p + 1, i - 1)
    ELSE [fwd EXCEPT ![p] = NULL]

\* clear that rebuilds the links and forgets to reset the count.
clear_keeps_count ==
    /\ m_usedHead' = NULL
    /\ m_usedTail' = NULL
    /\ m_freeHead' = 0
    /\ m_forward' = clear_loop(m_forward, 0, queueMax - 1)
    /\ UNCHANGED <<m_item, m_usedCount>>

clear ==
    /\ m_usedHead' = NULL
    /\ m_usedTail' = NULL
    /\ m_freeHead' = 0
    /\ m_forward' = clear_loop(m_forward, 0, queueMax - 1)
    /\ m_usedCount' = 0
    /\ UNCHANGED m_item

\* The constructor's loops without the assignment of lines 303 and 327
\* that links the previous slot to the current one.
RECURSIVE link_loop_unlinked(_, _, _, _)
link_loop_unlinked(fwd, i, last, prev) ==
    IF i < last
    THEN link_loop_unlinked([fwd EXCEPT ![i] = NULL], i + 1, last, i)
    ELSE fwd

\* The two loops of the initialising constructor (lines 291-311, 320-332)
\* both link slots i .. last in array order; prev is the slot linked last.
RECURSIVE link_loop(_, _, _, _)
link_loop(fwd, i, last, prev) ==
    IF i < last
    THEN LET f1 == [fwd EXCEPT ![i] = NULL]
             f2 == IF prev # NULL THEN [f1 EXCEPT ![prev] = i] ELSE f1
         IN  link_loop(f2, i + 1, last, i)
    ELSE fwd

min(a, b) == IF a < b THEN a ELSE b

\* State built by FixedLengthList(p_items, p_count) over uninitialised
\* storage (item0, fwd0); p_items is a sequence of p_count values.
ctor_init(item0, fwd0, p_items, p_count) ==
    LET init_count == min(queueMax, p_count)
        f1 == link_loop(fwd0, 0, init_count, NULL)
        f2 == link_loop(f1, init_count, queueMax, NULL)
    IN  [m_item      |-> [s \in Slots |-> IF s < init_count THEN p_items[s + 1] ELSE item0[s]],
         m_forward   |-> f2,
         m_usedHead  |-> IF init_count > 0 THEN 0 ELSE NULL,
         m_usedTail  |-> IF init_count > 0 THEN init_count - 1 ELSE NULL,
         m_usedCount |-> init_count,
         m_freeHead  |-> IF init_count < queueMax THEN init_count ELSE NULL]

\* State built by FixedLengthList(void): clear() over uninitialised storage.
ctor_default(item0, fwd0) ==
    [m_item      |-> item0,
     m_forward   |-> clear_loop(fwd0, 0, queueMax - 1),
     m_usedHead  |-> NULL,
     m_usedTail  |-> NULL,
     m_usedCount |-> 0,
     m_freeHead  |-> 0]

InitFrom(L, o, c) ==
    /\ m_item = L.m_item
    /\ m_forward = L.m_forward
    /\ m_freeHead = L.m_freeHead
    /\ m_usedHead = L.m_usedHead
    /\ m_usedTail = L.m_usedTail
    /\ m_usedCount = L.m_usedCount
    /\ out = o
    /\ ret_val = FALSE
    /\ op = c
    /\ arg = 0
    /\ pre = [m_item |-> L.m_item, m_forward |-> L.m_forward,
              m_freeHead |-> L.m_freeHead, m_usedHead |-> L.m_usedHead,
              m_usedTail |-> L.m_usedTail, m_usedCount |-> L.m_usedCount,
              out |-> o, ret_val |-> FALSE, op |-> c, arg |-> 0]
    /\ abs_ret = FALSE
    /\ abs_out = o
    /\ mon = "off"
    /\ fill = <<>>
    /\ drun = <<>>
    /\ it = NULL
    /\ it_valid = FALSE
    /\ walk = <<>>
    /\ crashed = FALSE

\* Contents of the forward pointers before the constructor runs.
Garbage == {[s \in Slots |-> g] : g \in Ptrs}

\* Storage is uninitialised before the constructor runs: any content.
Constructed ==
    \E item0 \in [Slots -> Values], fwd0 \in Garbage, o \in Values :
        \/ /\ InitFrom(ctor_default(item0, fwd0), o, "ctor")
           /\ abs = <<>>
           /\ init_items = <<>>
        \/ \E p_count \in 0 .. (queueMax + 1) :
             \E p_items \in [1 .. p_count -> Values] :
                /\ InitFrom(ctor_init(item0, fwd0, p_items, p_count), o, "ctor_init")
                /\ abs = [k \in 1 .. min(queueMax, p_count) |-> p_items[k]]
                /\ init_items = p_items

\* One client, calling from a single thread.
Init ==
    /\ Constructed
    /\ thr = [t \in Threads |-> [pc |-> "idle", m |-> "none", v |-> 0,
                                  item |-> NULL, cnt |-> 0, ret |-> FALSE, out |-> 0]]
    /\ overlap = FALSE

-----------------------------------------------------------------------------
(* The methods, as they act on the container, ret_val and out.             *)

\* push without the assignment of line 371: the new head keeps the link it
\* had on the free stack.
push_keeps_link(p_item) ==
    IF m_freeHead # NULL
    THEN LET new_item == m_freeHead IN
         /\ m_freeHead' = m_forward[new_item]
         /\ m_item' = [m_item EXCEPT ![new_item] = p_item]
         /\ m_usedHead' = new_item
         /\ m_usedTail' = IF m_usedTail = NULL THEN new_item ELSE m_usedTail
         /\ m_usedCount' = m_usedCount + 1
         /\ ret_val' = TRUE
         /\ UNCHANGED <<m_forward, out>>
    ELSE /\ ret_val' = FALSE
         /\ UNCHANGED <<container, out>>

\* push with the count incremented outside the test for a free slot.
push_counts_always(p_item) ==
    IF m_freeHead # NULL
    THEN LET new_item == m_freeHead IN
         /\ m_freeHead' = m_forward[new_item]
         /\ m_forward' = [m_forward EXCEPT ![new_item] = m_usedHead]
         /\ m_item' = [m_item EXCEPT ![new_item] = p_item]
         /\ m_usedHead' = new_item
         /\ m_usedTail' = IF m_usedTail = NULL THEN new_item ELSE m_usedTail
         /\ m_usedCount' = m_usedCount + 1
         /\ ret_val' = TRUE
         /\ UNCHANGED out
    ELSE /\ ret_val' = FALSE
         /\ m_usedCount' = m_usedCount + 1
         /\ UNCHANGED <<m_item, m_forward, m_freeHead, m_usedHead, m_usedTail, out>>

\* push without the assignment of line 373: the slot keeps its old value.
push_drops_value(p_item) ==
    IF m_freeHead # NULL
    THEN LET new_item == m_freeHead IN
         /\ m_freeHead' = m_forward[new_item]
         /\ m_forward' = [m_forward EXCEPT ![new_item] = m_usedHead]
         /\ m_usedHead' = new_item
         /\ m_usedTail' = IF m_usedTail = NULL THEN new_item ELSE m_usedTail
         /\ m_usedCount' = m_usedCount + 1
         /\ ret_val' = TRUE
         /\ UNCHANGED <<m_item, out>>
    ELSE /\ ret_val' = FALSE
         /\ UNCHANGED <<container, out>>

push(p_item) ==
    IF m_freeHead # NULL
    THEN LET new_item == m_freeHead IN
         /\ m_freeHead' = m_forward[new_item]
         /\ m_forward' = [m_forward EXCEPT ![new_item] = m_usedHead]
         /\ m_item' = [m_item EXCEPT ![new_item] = p_item]
         /\ m_usedHead' = new_item
         /\ m_usedTail' = IF m_usedTail = NULL THEN new_item ELSE m_usedTail
         /\ m_usedCount' = m_usedCount + 1
         /\ ret_val' = TRUE
         /\ UNCHANGED out
    ELSE /\ ret_val' = FALSE
         /\ UNCHANGED <<container, out>>

\* queue that refuses the last free slot: it also tests the link of the
\* free head.
queue_rejects_last(p_item) ==
    IF m_freeHead # NULL /\ m_forward[m_freeHead] # NULL
    THEN LET new_item == m_freeHead
             f1 == [m_forward EXCEPT ![new_item] = NULL]
             f2 == IF m_usedTail # NULL
                   THEN [f1 EXCEPT ![m_usedTail] = new_item]
                   ELSE f1
         IN
         /\ m_freeHead' = m_forward[m_freeHead]
         /\ m_forward' = f2
         /\ m_item' = [m_item EXCEPT ![new_item] = p_item]
         /\ m_usedTail' = new_item
         /\ m_usedHead' = IF m_usedHead = NULL THEN new_item ELSE m_usedHead
         /\ m_usedCount' = m_usedCount + 1
         /\ ret_val' = TRUE
         /\ UNCHANGED out
    ELSE /\ ret_val' = FALSE
         /\ UNCHANGED <<container, out>>

\* queue with the new slot linked in at the head, as push does.
queue_at_head(p_item) == push(p_item)

queue(p_item) ==
    IF m_freeHead # NULL
    THEN LET new_item == m_freeHead
             f1 == [m_forward EXCEPT ![new_item] = NULL]
             f2 == IF m_usedTail # NULL
                   THEN [f1 EXCEPT ![m_usedTail] = new_item]
                   ELSE f1
         IN
         /\ m_freeHead' = m_forward[m_freeHead]
         /\ m_forward' = f2
         /\ m_item' = [m_item EXCEPT ![new_item] = p_item]
         /\ m_usedTail' = new_item
         /\ m_usedHead' = IF m_usedHead = NULL THEN new_item ELSE m_usedHead
         /\ m_usedCount' = m_usedCount + 1
         /\ ret_val' = TRUE
         /\ UNCHANGED out
    ELSE /\ ret_val' = FALSE
         /\ UNCHANGED <<container, out>>

\* pop that overwrites the value of the slot it releases.
pop_scrubs_value ==
    IF m_usedHead # NULL
    THEN LET old_item == m_usedHead IN
         /\ out' = m_item[old_item]
         /\ m_usedHead' = m_forward[old_item]
         /\ m_usedTail' = IF m_usedTail = old_item THEN NULL ELSE m_usedTail
         /\ m_forward' = [m_forward EXCEPT ![old_item] = m_freeHead]
         /\ m_freeHead' = old_item
         /\ m_usedCount' = m_usedCount - 1
         /\ ret_val' = TRUE
         /\ m_item' = [m_item EXCEPT ![old_item] = CHOOSE v \in Values : v # m_item[old_item]]
    ELSE /\ ret_val' = FALSE
         /\ UNCHANGED <<container, out>>

\* pop that puts the released slot at the far end of the free chain.
pop_frees_at_end ==
    IF m_usedHead # NULL
    THEN LET old_item == m_usedHead
             f1 == [m_forward EXCEPT ![old_item] = NULL]
         IN
         /\ out' = m_item[old_item]
         /\ m_usedHead' = m_forward[old_item]
         /\ m_usedTail' = IF m_usedTail = old_item THEN NULL ELSE m_usedTail
         /\ m_forward' = IF m_freeHead = NULL
                         THEN f1
                         ELSE [f1 EXCEPT ![FreeChain[Len(FreeChain)]] = old_item]
         /\ m_freeHead' = IF m_freeHead = NULL THEN old_item ELSE m_freeHead
         /\ m_usedCount' = m_usedCount - 1
         /\ ret_val' = TRUE
         /\ UNCHANGED m_item
    ELSE /\ ret_val' = FALSE
         /\ UNCHANGED <<container, out>>

\* pop that unlinks the head slot and never returns it to the free stack.
pop_leaks_slot ==
    IF m_usedHead # NULL
    THEN LET old_item == m_usedHead IN
         /\ out' = m_item[old_item]
         /\ m_usedHead' = m_forward[old_item]
         /\ m_usedTail' = IF m_usedTail = old_item THEN NULL ELSE m_usedTail
         /\ m_usedCount' = m_usedCount - 1
         /\ ret_val' = TRUE
         /\ UNCHANGED <<m_item, m_forward, m_freeHead>>
    ELSE /\ ret_val' = FALSE
         /\ UNCHANGED <<container, out>>

\* pop without the test of lines 445-448: the tail is left on the freed slot.
pop_keeps_tail ==
    IF m_usedHead # NULL
    THEN LET old_item == m_usedHead IN
         /\ out' = m_item[old_item]
         /\ m_usedHead' = m_forward[old_item]
         /\ m_forward' = [m_forward EXCEPT ![old_item] = m_freeHead]
         /\ m_freeHead' = old_item
         /\ m_usedCount' = m_usedCount - 1
         /\ ret_val' = TRUE
         /\ UNCHANGED <<m_item, m_usedTail>>
    ELSE /\ ret_val' = FALSE
         /\ UNCHANGED <<container, out>>

pop ==
    IF m_usedHead # NULL
    THEN LET old_item == m_usedHead IN
         /\ out' = m_item[old_item]
         /\ m_usedHead' = m_forward[old_item]
         /\ m_usedTail' = IF m_usedTail = old_item THEN NULL ELSE m_usedTail
         /\ m_forward' = [m_forward EXCEPT ![old_item] = m_freeHead]
         /\ m_freeHead' = old_item
         /\ m_usedCount' = m_usedCount - 1
         /\ ret_val' = TRUE
         /\ UNCHANGED m_item
    ELSE /\ ret_val' = FALSE
         /\ UNCHANGED <<container, out>>

\* The while loop of remove_node (lines 500-512): the slot whose forward
\* pointer is p_item, searched from p; NULL when the loop runs off the end.
RECURSIVE find_preceding(_, _, _)
find_preceding(fwd, p, p_item) ==
    IF p = NULL
    THEN NULL
    ELSE IF fwd[p] = p_item
         THEN p
         ELSE find_preceding(fwd, fwd[p], p_item)

\* remove_node without the assignment of line 504: the new tail still
\* points at the removed slot.
remove_node_keeps_link(p_item) ==
    LET only == (m_usedHead = p_item)
        p    == IF only THEN NULL ELSE find_preceding(m_forward, m_usedHead, p_item)
    IN
    /\ m_usedHead' = IF only THEN NULL ELSE m_usedHead
    /\ m_usedTail' = IF only THEN NULL ELSE IF p # NULL THEN p ELSE m_usedTail
    /\ m_forward' = [m_forward EXCEPT ![p_item] = m_freeHead]
    /\ m_freeHead' = p_item
    /\ m_usedCount' = m_usedCount - 1
    /\ UNCHANGED m_item

remove_node(p_item) ==
    LET only == (m_usedHead = p_item)
        p    == IF only THEN NULL ELSE find_preceding(m_forward, m_usedHead, p_item)
        f1   == IF p # NULL THEN [m_forward EXCEPT ![p] = NULL] ELSE m_forward
    IN
    /\ m_usedHead' = IF only THEN NULL ELSE m_usedHead
    /\ m_usedTail' = IF only THEN NULL ELSE IF p # NULL THEN p ELSE m_usedTail
    /\ m_forward' = [f1 EXCEPT ![p_item] = m_freeHead]
    /\ m_freeHead' = p_item
    /\ m_usedCount' = m_usedCount - 1
    /\ UNCHANGED m_item

\* dequeue that copies a slot's value out before it tests for emptiness.
dequeue_writes_first ==
    IF m_usedTail # NULL
    THEN LET old_item == m_usedTail IN
         /\ out' = m_item[old_item]
         /\ remove_node(old_item)
         /\ ret_val' = TRUE
    ELSE /\ ret_val' = FALSE
         /\ out' = m_item[0]
         /\ UNCHANGED container

\* dequeue that takes the element at the head, as pop does.
dequeue_from_head == pop

dequeue ==
    IF m_usedTail # NULL
    THEN LET old_item == m_usedTail IN
         /\ out' = m_item[old_item]
         /\ remove_node(old_item)
         /\ ret_val' = TRUE
    ELSE /\ ret_val' = FALSE
         /\ UNCHANGED <<container, out>>

\* The while loop of remove (lines 530-567): where the scan from p, with
\* last the slot visited before p, stops; p = NULL when nothing matches.
RECURSIVE remove_scan(_, _, _)
remove_scan(last, p, p_item) ==
    IF p = NULL
    THEN [last |-> last, p |-> NULL]
    ELSE IF m_item[p] = p_item
         THEN [last |-> last, p |-> p]
         ELSE remove_scan(p, m_forward[p], p_item)

\* remove without the decrement of line 557.
remove_keeps_count(p_item) ==
    LET hit  == remove_scan(NULL, m_usedHead, p_item)
        last == hit.last
        p    == hit.p
    IN
    IF p # NULL
    THEN LET f1 == IF last = NULL
                   THEN m_forward
                   ELSE [m_forward EXCEPT ![last] = m_forward[p]]
         IN
         /\ m_usedHead' = IF last = NULL THEN m_forward[p] ELSE m_usedHead
         /\ m_usedTail' = IF m_usedTail = p THEN last ELSE m_usedTail
         /\ m_forward' = [f1 EXCEPT ![p] = m_freeHead]
         /\ m_freeHead' = p
         /\ ret_val' = TRUE
         /\ UNCHANGED <<m_item, m_usedCount, out>>
    ELSE /\ ret_val' = FALSE
         /\ UNCHANGED <<container, out>>

\* remove with the decrement placed after the loop, outside the match.
remove_counts_miss(p_item) ==
    LET hit  == remove_scan(NULL, m_usedHead, p_item)
        last == hit.last
        p    == hit.p
    IN
    IF p # NULL
    THEN LET f1 == IF last = NULL
                   THEN m_forward
                   ELSE [m_forward EXCEPT ![last] = m_forward[p]]
         IN
         /\ m_usedHead' = IF last = NULL THEN m_forward[p] ELSE m_usedHead
         /\ m_usedTail' = IF m_usedTail = p THEN last ELSE m_usedTail
         /\ m_forward' = [f1 EXCEPT ![p] = m_freeHead]
         /\ m_freeHead' = p
         /\ m_usedCount' = m_usedCount - 1
         /\ ret_val' = TRUE
         /\ UNCHANGED <<m_item, out>>
    ELSE /\ ret_val' = FALSE
         /\ m_usedCount' = m_usedCount - 1
         /\ UNCHANGED <<m_item, m_forward, m_freeHead, m_usedHead, m_usedTail, out>>

\* remove without the test of lines 548-551: a removed tail stays the tail.
remove_keeps_tail(p_item) ==
    LET hit  == remove_scan(NULL, m_usedHead, p_item)
        last == hit.last
        p    == hit.p
    IN
    IF p # NULL
    THEN LET f1 == IF last = NULL
                   THEN m_forward
                   ELSE [m_forward EXCEPT ![last] = m_forward[p]]
         IN
         /\ m_usedHead' = IF last = NULL THEN m_forward[p] ELSE m_usedHead
         /\ m_forward' = [f1 EXCEPT ![p] = m_freeHead]
         /\ m_freeHead' = p
         /\ m_usedCount' = m_usedCount - 1
         /\ ret_val' = TRUE
         /\ UNCHANGED <<m_item, m_usedTail, out>>
    ELSE /\ ret_val' = FALSE
         /\ UNCHANGED <<container, out>>

remove(p_item) ==
    LET hit  == remove_scan(NULL, m_usedHead, p_item)
        last == hit.last
        p    == hit.p
    IN
    IF p # NULL
    THEN LET f1 == IF last = NULL
                   THEN m_forward
                   ELSE [m_forward EXCEPT ![last] = m_forward[p]]
         IN
         /\ m_usedHead' = IF last = NULL THEN m_forward[p] ELSE m_usedHead
         /\ m_usedTail' = IF m_usedTail = p THEN last ELSE m_usedTail
         /\ m_forward' = [f1 EXCEPT ![p] = m_freeHead]
         /\ m_freeHead' = p
         /\ m_usedCount' = m_usedCount - 1
         /\ ret_val' = TRUE
         /\ UNCHANGED <<m_item, out>>
    ELSE /\ ret_val' = FALSE
         /\ UNCHANGED <<container, out>>

used == m_usedCount

available == queueMax - m_usedCount

\* The while loop of inList (lines 591-600) run from slot p.
RECURSIVE inList_scan(_, _)
inList_scan(p, p_val) ==
    IF p = NULL
    THEN FALSE
    ELSE IF m_item[p] = p_val
         THEN TRUE
         ELSE inList_scan(m_forward[p], p_val)

\* inList that looks at every slot of the pool, free or used.
inList_any_slot(p_val) == \E s \in Slots : m_item[s] = p_val

\* The value returned by inList(p_val).
inList(p_val) == inList_scan(m_usedHead, p_val)

\* The number of slots the while loop of remove_node (lines 500-512)
\* visits from p when it looks for the slot before p_item; the count stops
\* at n, so a loop that would not end shows as n visits.
RECURSIVE remove_node_visits(_, _, _, _)
remove_node_visits(fwd, p, p_item, n) ==
    IF p = NULL \/ n = 0
    THEN 0
    ELSE IF fwd[p] = p_item
         THEN 1
         ELSE 1 + remove_node_visits(fwd, fwd[p], p_item, n - 1)

\* The slots visited by remove_node(p_item): none when p_item is the head
\* (line 488).
remove_node_cost(p_item) ==
    IF m_usedHead = p_item
    THEN 0
    ELSE remove_node_visits(m_forward, m_usedHead, p_item, queueMax + 1)

\* The number of slots the while loop of remove (lines 530-567) visits
\* from p, stopping the count at n.
RECURSIVE remove_visits(_, _, _)
remove_visits(p, p_item, n) ==
    IF p = NULL \/ n = 0
    THEN 0
    ELSE IF m_item[p] = p_item
         THEN 1
         ELSE 1 + remove_visits(m_forward[p], p_item, n - 1)

\* The number of slots the while loop of inList (lines 591-600) visits
\* from p, stopping the count at n.
RECURSIVE inList_visits(_, _, _)
inList_visits(p, p_val, n) ==
    IF p = NULL \/ n = 0
    THEN 0
    ELSE IF m_item[p] = p_val
         THEN 1
         ELSE 1 + inList_visits(m_forward[p], p_val, n - 1)

\* begin() that hands out the head of the free stack.
begin_on_free == m_freeHead

\* m_item of the iterator returned by begin().
begin == m_usedHead

\* m_item of the iterator returned by end() and by FixedLengthListIter().
end == NULL

\* operator==.
iter_eq(a, b) == (a = b)

\* operator++(int) and operator++(): m_item = m_item->m_forward.  On an
\* iterator at end this dereferences NULL, which is undefined: the program
\* stops, or goes on with whatever it read as the new m_item.
increment ==
    IF it # NULL
    THEN /\ it' = m_forward[it]
         /\ crashed' = FALSE
    ELSE \/ /\ crashed' = TRUE
            /\ it' = it
         \/ /\ crashed' = FALSE
            /\ it' \in Ptrs

\* operator!= of two iterators: their m_item pointers differ.
iter_ne(a, b) == (a # b)

\* The loop of operator+= run once more than asked: i <= p_inc.
RECURSIVE plus_eq_loop_inclusive(_, _, _)
plus_eq_loop_inclusive(p, i, p_inc) ==
    IF i <= p_inc
    THEN IF p = NULL
         THEN p
         ELSE plus_eq_loop_inclusive(m_forward[p], i + 1, p_inc)
    ELSE p

\* The loop of operator+= (lines 650-659) from m_item = p at counter i.
RECURSIVE plus_eq_loop(_, _, _)
plus_eq_loop(p, i, p_inc) ==
    IF i < p_inc
    THEN IF p = NULL
         THEN p
         ELSE plus_eq_loop(m_forward[p], i + 1, p_inc)
    ELSE p

plus_eq(p_inc) ==
    /\ it' = plus_eq_loop(it, 0, p_inc)
    /\ crashed' = FALSE

-----------------------------------------------------------------------------
(* History kept next to the program: the abstract list, and the monitor    *)
(* of runs of queue calls followed by dequeue calls.                       *)

Note(o, a) ==
    /\ op' = o
    /\ arg' = a
    /\ pre' = Snapshot
    /\ init_items' = <<>>
    /\ UNCHANGED <<thr, overlap>>

AbsPush(v) ==
    /\ abs' = IF Len(abs) < queueMax THEN <<v>> \o abs ELSE abs
    /\ abs_ret' = (Len(abs) < queueMax)
    /\ abs_out' = abs_out

AbsQueue(v) ==
    /\ abs' = IF Len(abs) < queueMax THEN Append(abs, v) ELSE abs
    /\ abs_ret' = (Len(abs) < queueMax)
    /\ abs_out' = abs_out

AbsPop ==
    /\ abs' = IF abs # <<>> THEN Tail(abs) ELSE abs
    /\ abs_ret' = (abs # <<>>)
    /\ abs_out' = IF abs # <<>> THEN Head(abs) ELSE abs_out

AbsDequeue ==
    /\ abs' = IF abs # <<>> THEN SubSeq(abs, 1, Len(abs) - 1) ELSE abs
    /\ abs_ret' = (abs # <<>>)
    /\ abs_out' = IF abs # <<>> THEN abs[Len(abs)] ELSE abs_out

AbsRemove(v) ==
    /\ abs' = IF FirstIndex(abs, v) > 0 THEN RemoveAt(abs, FirstIndex(abs, v)) ELSE abs
    /\ abs_ret' = (FirstIndex(abs, v) > 0)
    /\ abs_out' = abs_out

AbsInList(v) ==
    /\ abs' = abs
    /\ abs_ret' = (\E k \in 1 .. Len(abs) : abs[k] = v)
    /\ abs_out' = abs_out

AbsClear ==
    /\ abs' = <<>>
    /\ abs_ret' = abs_ret
    /\ abs_out' = abs_out

\* A run starts afresh whenever the list is found empty.
RunMon == IF used = 0 THEN "fill" ELSE mon

RunFill == IF used = 0 THEN <<>> ELSE fill

RunDrained == IF used = 0 THEN <<>> ELSE drun

MonOff ==
    /\ mon' = "off"
    /\ fill' = <<>>
    /\ drun' = <<>>

\* A successful insert by method m ("push" or "queue") extends the run.
MonInsert(m, v) ==
    IF ret_val' /\ RunMon = "fill"
    THEN /\ mon' = "fill"
         /\ fill' = Append(RunFill, [m |-> m, v |-> v])
         /\ drun' = <<>>
    ELSE MonOff

\* A successful dequeue after the inserts of a run drains it.
MonDequeue ==
    IF ret_val' /\ RunMon \in {"fill", "drain"}
    THEN /\ mon' = "drain"
         /\ fill' = RunFill
         /\ drun' = Append(RunDrained, out')
    ELSE MonOff

FillValues == [k \in 1 .. Len(fill) |-> fill[k].v]

FilledBy(m) == \A k \in 1 .. Len(fill) : fill[k].m = m

\* A call of a mutating method invalidates the client's iterator; the
\* client drops it, leaving a default-constructed iterator in its place.
Invalidate ==
    /\ ~crashed
    /\ it' = end
    /\ it_valid' = FALSE
    /\ walk' = <<>>
    /\ UNCHANGED crashed

-----------------------------------------------------------------------------
(* The calls a client can make.                                            *)

Push ==
    \E v \in Values :
        /\ push(v)
        /\ Note("push", v)
        /\ Invalidate
        /\ AbsPush(v)
        /\ MonInsert("push", v)

Queue ==
    \E v \in Values :
        /\ queue(v)
        /\ Note("queue", v)
        /\ Invalidate
        /\ AbsQueue(v)
        /\ MonInsert("queue", v)

Pop ==
    /\ pop
    /\ Note("pop", 0)
    /\ Invalidate
    /\ AbsPop
    /\ MonOff

Dequeue ==
    /\ dequeue
    /\ Note("dequeue", 0)
    /\ Invalidate
    /\ AbsDequeue
    /\ MonDequeue

Remove ==
    \E v \in Values :
        /\ remove(v)
        /\ Note("remove", v)
        /\ Invalidate
        /\ AbsRemove(v)
        /\ MonOff

InList ==
    \E v \in Values :
        /\ ret_val' = inList(v)
        /\ UNCHANGED <<container, out>>
        /\ Note("inList", v)
        /\ ~crashed
        /\ UNCHANGED <<it, it_valid, walk, crashed>>
        /\ AbsInList(v)
        /\ MonOff

Clear ==
    /\ clear
    /\ UNCHANGED <<out, ret_val>>
    /\ Note("clear", 0)
    /\ Invalidate
    /\ AbsClear
    /\ MonOff

Next ==
    \/ Push
    \/ Queue
    \/ Pop
    \/ Dequeue
    \/ Remove
    \/ InList
    \/ Clear

Spec == Init /\ [][Next]_vars

-----------------------------------------------------------------------------
(* The client also walks the list with an iterator.                        *)

\* In this client the history keeps the container as the call found it
\* and forgets which call came before.
Forget(o, a) ==
    /\ ~crashed
    /\ op' = o
    /\ arg' = a
    /\ pre' = [Snapshot EXCEPT !.op = "any", !.arg = 0]
    /\ init_items' = <<>>
    /\ UNCHANGED <<thr, overlap>>
    /\ MonOff

\* An iterator call reads the container and changes only the iterator.
Observe(o, a) ==
    /\ Forget(o, a)
    /\ UNCHANGED <<container, out, ret_val, abs, abs_ret, abs_out>>

ItPush ==
    \E v \in Values :
        /\ push(v)
        /\ AbsPush(v)
        /\ Invalidate
        /\ Forget("push", v)

ItQueue ==
    \E v \in Values :
        /\ queue(v)
        /\ AbsQueue(v)
        /\ Invalidate
        /\ Forget("queue", v)

ItPop ==
    /\ pop
    /\ AbsPop
    /\ Invalidate
    /\ Forget("pop", 0)

ItDequeue ==
    /\ dequeue
    /\ AbsDequeue
    /\ Invalidate
    /\ Forget("dequeue", 0)

ItRemove ==
    \E v \in Values :
        /\ remove(v)
        /\ AbsRemove(v)
        /\ Invalidate
        /\ Forget("remove", v)

ItClear ==
    /\ clear
    /\ UNCHANGED <<out, ret_val>>
    /\ AbsClear
    /\ Invalidate
    /\ Forget("clear", 0)

Begin ==
    /\ it' = begin
    /\ it_valid' = TRUE
    /\ walk' = <<>>
    /\ crashed' = FALSE
    /\ Observe("begin", 0)

PreInc ==
    /\ increment
    /\ it_valid' = (it_valid /\ it # NULL)
    /\ walk' = IF it_valid /\ it # NULL THEN Append(walk, it) ELSE <<>>
    /\ Observe("preinc", 0)

PostInc ==
    /\ increment
    /\ it_valid' = (it_valid /\ it # NULL)
    /\ walk' = IF it_valid /\ it # NULL THEN Append(walk, it) ELSE <<>>
    /\ Observe("postinc", 0)

PlusEq ==
    \E p_inc \in 0 .. (queueMax + 1) :
        /\ plus_eq(p_inc)
        /\ it_valid' = it_valid
        /\ walk' = IF it_valid THEN walk \o ChainFrom(m_forward, it, p_inc) ELSE <<>>
        /\ Observe("pluseq", p_inc)

NextIter ==
    \/ ItPush
    \/ ItQueue
    \/ ItPop
    \/ ItDequeue
    \/ ItRemove
    \/ ItClear
    \/ Begin
    \/ PreInc
    \/ PostInc
    \/ PlusEq

SpecIter == Init /\ [][NextIter]_vars

-----------------------------------------------------------------------------
(* Two threads call push or pop on the same container with no lock.  Each  *)
(* statement of the method is one step; m_usedCount++ and m_usedCount--    *)
(* are a load and a store.                                                 *)

InitConc ==
    /\ Constructed
    /\ \E c \in [Threads -> {[m |-> "pop", v |-> 0]} \cup
                             {[m |-> "push", v |-> x] : x \in Values}] :
          thr = [t \in Threads |-> [pc |-> "start", m |-> c[t].m, v |-> c[t].v,
                                    item |-> NULL, cnt |-> 0, ret |-> FALSE, out |-> 0]]
    /\ overlap = FALSE

Running(u) == thr[u].pc \notin {"idle", "start", "done"}

\* Thread t takes a step from position l.
ThreadStep(t, l) ==
    /\ ~crashed
    /\ thr[t].pc = l
    /\ overlap' = (overlap \/ \E u \in Threads \ {t} : Running(u))
    /\ UNCHANGED <<out, ret_val, history, it, it_valid, walk>>

\* line 364: if( m_freeHead != NULL )
ConcPushTest ==
    \E t \in Threads :
        /\ ThreadStep(t, "start")
        /\ thr[t].m = "push"
        /\ thr' = IF m_freeHead # NULL
                  THEN [thr EXCEPT ![t].pc = "push_366"]
                  ELSE [thr EXCEPT ![t].pc = "done", ![t].ret = FALSE]
        /\ UNCHANGED <<container, crashed>>

\* line 366: new_item = m_freeHead
ConcPushTake ==
    \E t \in Threads :
        /\ ThreadStep(t, "push_366")
        /\ thr' = [thr EXCEPT ![t].pc = "push_369", ![t].item = m_freeHead]
        /\ UNCHANGED <<container, crashed>>

\* line 369: m_freeHead = new_item->m_forward
ConcPushUnlink ==
    \E t \in Threads :
        /\ ThreadStep(t, "push_369")
        /\ IF thr[t].item = NULL
           THEN /\ crashed' = TRUE
                /\ UNCHANGED <<container, thr>>
           ELSE /\ m_freeHead' = m_forward[thr[t].item]
                /\ thr' = [thr EXCEPT ![t].pc = "push_371"]
                /\ UNCHANGED <<m_item, m_forward, m_usedHead, m_usedTail, m_usedCount, crashed>>

\* line 371: new_item->m_forward = m_usedHead
ConcPushLink ==
    \E t \in Threads :
        /\ ThreadStep(t, "push_371")
        /\ m_forward' = [m_forward EXCEPT ![thr[t].item] = m_usedHead]
        /\ thr' = [thr EXCEPT ![t].pc = "push_373"]
        /\ UNCHANGED <<m_item, m_freeHead, m_usedHead, m_usedTail, m_usedCount, crashed>>

\* line 373: new_item->m_item = p_item
ConcPushStore ==
    \E t \in Threads :
        /\ ThreadStep(t, "push_373")
        /\ m_item' = [m_item EXCEPT ![thr[t].item] = thr[t].v]
        /\ thr' = [thr EXCEPT ![t].pc = "push_375"]
        /\ UNCHANGED <<m_forward, m_freeHead, m_usedHead, m_usedTail, m_usedCount, crashed>>

\* line 375: m_usedHead = new_item
ConcPushHead ==
    \E t \in Threads :
        /\ ThreadStep(t, "push_375")
        /\ m_usedHead' = thr[t].item
        /\ thr' = [thr EXCEPT ![t].pc = "push_377"]
        /\ UNCHANGED <<m_item, m_forward, m_freeHead, m_usedTail, m_usedCount, crashed>>

\* lines 377-380: if( m_usedTail == NULL ) m_usedTail = new_item
ConcPushTail ==
    \E t \in Threads :
        /\ ThreadStep(t, "push_377")
        /\ m_usedTail' = IF m_usedTail = NULL THEN thr[t].item ELSE m_usedTail
        /\ thr' = [thr EXCEPT ![t].pc = "push_382"]
        /\ UNCHANGED <<m_item, m_forward, m_freeHead, m_usedHead, m_usedCount, crashed>>

\* line 382, the load of m_usedCount++
ConcPushLoad ==
    \E t \in Threads :
        /\ ThreadStep(t, "push_382")
        /\ thr' = [thr EXCEPT ![t].pc = "push_382w", ![t].cnt = m_usedCount]
        /\ UNCHANGED <<container, crashed>>

\* A store of the count as loaded, without the increment.
ConcPushInc_same ==
    \E t \in Threads :
        /\ ThreadStep(t, "push_382w")
        /\ m_usedCount' = thr[t].cnt
        /\ thr' = [thr EXCEPT ![t].pc = "done", ![t].ret = TRUE]
        /\ UNCHANGED <<m_item, m_forward, m_freeHead, m_usedHead, m_usedTail, crashed>>

\* line 382, the store of m_usedCount++; lines 385-388: return true
ConcPushInc ==
    \E t \in Threads :
        /\ ThreadStep(t, "push_382w")
        /\ m_usedCount' = thr[t].cnt + 1
        /\ thr' = [thr EXCEPT ![t].pc = "done", ![t].ret = TRUE]
        /\ UNCHANGED <<m_item, m_forward, m_freeHead, m_usedHead, m_usedTail, crashed>>

\* line 437: if( m_usedHead != NULL )
ConcPopTest ==
    \E t \in Threads :
        /\ ThreadStep(t, "start")
        /\ thr[t].m = "pop"
        /\ thr' = IF m_usedHead # NULL
                  THEN [thr EXCEPT ![t].pc = "pop_439"]
                  ELSE [thr EXCEPT ![t].pc = "done", ![t].ret = FALSE]
        /\ UNCHANGED <<container, crashed>>

\* line 439: old_item = m_usedHead
ConcPopTake ==
    \E t \in Threads :
        /\ ThreadStep(t, "pop_439")
        /\ thr' = [thr EXCEPT ![t].pc = "pop_441", ![t].item = m_usedHead]
        /\ UNCHANGED <<container, crashed>>

\* line 441: *p_item = old_item->m_item
ConcPopOut ==
    \E t \in Threads :
        /\ ThreadStep(t, "pop_441")
        /\ IF thr[t].item = NULL
           THEN /\ crashed' = TRUE
                /\ UNCHANGED thr
           ELSE /\ thr' = [thr EXCEPT ![t].pc = "pop_443", ![t].out = m_item[thr[t].item]]
                /\ UNCHANGED crashed
        /\ UNCHANGED container

\* line 443: m_usedHead = old_item->m_forward
ConcPopHead ==
    \E t \in Threads :
        /\ ThreadStep(t, "pop_443")
        /\ m_usedHead' = m_forward[thr[t].item]
        /\ thr' = [thr EXCEPT ![t].pc = "pop_445"]
        /\ UNCHANGED <<m_item, m_forward, m_freeHead, m_usedTail, m_usedCount, crashed>>

\* lines 445-448: if( m_usedTail == old_item ) m_usedTail = NULL
ConcPopTail ==
    \E t \in Threads :
        /\ ThreadStep(t, "pop_445")
        /\ m_usedTail' = IF m_usedTail = thr[t].item THEN NULL ELSE m_usedTail
        /\ thr' = [thr EXCEPT ![t].pc = "pop_450"]
        /\ UNCHANGED <<m_item, m_forward, m_freeHead, m_usedHead, m_usedCount, crashed>>

\* line 450: old_item->m_forward = m_freeHead
ConcPopLink ==
    \E t \in Threads :
        /\ ThreadStep(t, "pop_450")
        /\ m_forward' = [m_forward EXCEPT ![thr[t].item] = m_freeHead]
        /\ thr' = [thr EXCEPT ![t].pc = "pop_452"]
        /\ UNCHANGED <<m_item, m_freeHead, m_usedHead, m_usedTail, m_usedCount, crashed>>

\* line 452: m_freeHead = old_item
ConcPopFree ==
    \E t \in Threads :
        /\ ThreadStep(t, "pop_452")
        /\ m_freeHead' = thr[t].item
        /\ thr' = [thr EXCEPT ![t].pc = "pop_454"]
        /\ UNCHANGED <<m_item, m_forward, m_usedHead, m_usedTail, m_usedCount, crashed>>

\* line 454, the load of m_usedCount--
ConcPopLoad ==
    \E t \in Threads :
        /\ ThreadStep(t, "pop_454")
        /\ thr' = [thr EXCEPT ![t].pc = "pop_454w", ![t].cnt = m_usedCount]
        /\ UNCHANGED <<container, crashed>>

\* line 454, the store of m_usedCount--; lines 457-460: return true
ConcPopDec ==
    \E t \in Threads :
        /\ ThreadStep(t, "pop_454w")
        /\ m_usedCount' = thr[t].cnt - 1
        /\ thr' = [thr EXCEPT ![t].pc = "done", ![t].ret = TRUE]
        /\ UNCHANGED <<m_item, m_forward, m_freeHead, m_usedHead, m_usedTail, crashed>>

NextConc ==
    \/ ConcPushTest
    \/ ConcPushTake
    \/ ConcPushUnlink
    \/ ConcPushLink
    \/ ConcPushStore
    \/ ConcPushHead
    \/ ConcPushTail
    \/ ConcPushLoad
    \/ ConcPushInc
    \/ ConcPopTest
    \/ ConcPopTake
    \/ ConcPopOut
    \/ ConcPopHead
    \/ ConcPopTail
    \/ ConcPopLink
    \/ ConcPopFree
    \/ ConcPopLoad
    \/ ConcPopDec

SpecConc == InitConc /\ [][NextConc]_vars

-----------------------------------------------------------------------------
(* Properties.                                                             *)

\* C1: after any sequence of calls from either constructor, the values read
\* from m_usedHead along the forward links are the abstract sequence (push
\* prepends, queue appends, pop takes the first, dequeue the last, remove
\* deletes the first occurrence, clear empties), and the calls return what
\* the abstract operations return.
C1_Refinement ==
    /\ UsedValues = abs
    /\ ret_val = abs_ret
    /\ out = abs_out

C1_Witness ==
    /\ op = "remove"
    /\ ret_val
    /\ Len(PreUsedValues) = queueMax
    /\ PreUsedValues[1] # arg
    /\ UsedValues = abs
    /\ Len(abs) = queueMax - 1

\* C2: every slot is reachable from exactly one of m_freeHead and
\* m_usedHead, and the number of slots reachable from m_freeHead plus
\* m_usedCount is queueMax.
C2_Partition ==
    /\ SeqRange(UsedChain) \cap SeqRange(FreeChain) = {}
    /\ SeqRange(UsedChain) \cup SeqRange(FreeChain) = Slots
    /\ Cardinality(SeqRange(FreeChain)) + m_usedCount = queueMax

C2_Witness ==
    /\ op = "pop"
    /\ ret_val
    /\ m_usedCount > 0
    /\ Len(FreeChain) > 1
    /\ m_freeHead # 0
    /\ SeqRange(UsedChain) \cup SeqRange(FreeChain) = Slots

\* C3: m_usedCount is the number of slots reachable from m_usedHead, and
\* that chain ends at m_usedTail, whose forward pointer is NULL; also after
\* remove() has deleted the tail element and after dequeue().
C3_CountAndTail ==
    /\ m_usedCount = Cardinality(SeqRange(UsedChain))
    /\ m_usedCount = Len(UsedChain)
    /\ UsedChain # <<>> =>
          /\ UsedChain[Len(UsedChain)] = m_usedTail
          /\ m_forward[m_usedTail] = NULL

C3_Witness ==
    /\ op = "remove"
    /\ ret_val
    /\ m_freeHead = pre.m_usedTail
    /\ Len(UsedChain) = queueMax - 1
    /\ UsedChain[Len(UsedChain)] = m_usedTail

\* C4: m_usedHead = NULL, m_usedTail = NULL and m_usedCount = 0 are all
\* true or all false.
C4_EmptyAgree ==
    /\ (m_usedHead = NULL) <=> (m_usedTail = NULL)
    /\ (m_usedTail = NULL) <=> (m_usedCount = 0)

C4_Witness ==
    /\ op = "pop"
    /\ ret_val
    /\ pre.m_usedCount = 1
    /\ m_usedHead = NULL
    /\ m_usedTail = NULL
    /\ m_usedCount = 0

\* C5: after any sequence of calls, used() + available() = queueMax and
\* 0 <= used() <= queueMax.
C5_UsedAvailable ==
    /\ used + available = queueMax
    /\ used \in 0 .. queueMax
    /\ available \in 0 .. queueMax

C5_Witness ==
    /\ op = "queue"
    /\ ret_val
    /\ used = queueMax
    /\ available = 0

\* The container is as it was before the last call.
ContainerUnchanged ==
    /\ m_item = pre.m_item
    /\ m_forward = pre.m_forward
    /\ m_freeHead = pre.m_freeHead
    /\ m_usedHead = pre.m_usedHead
    /\ m_usedTail = pre.m_usedTail
    /\ m_usedCount = pre.m_usedCount

\* C6: when the list holds queueMax elements, push and queue return false
\* and leave the container as it was (sequence, head, tail, free stack,
\* values, count), so used() = queueMax and available() = 0 afterwards.
C6_FullRejects ==
    (op \in {"push", "queue"} /\ Len(PreUsedValues) = queueMax) =>
        /\ ret_val = FALSE
        /\ ContainerUnchanged
        /\ UsedValues = PreUsedValues
        /\ FreeChain = PreFreeChain
        /\ used = queueMax
        /\ available = 0

C6_Witness ==
    /\ op = "queue"
    /\ Len(PreUsedValues) = queueMax
    /\ ret_val = FALSE
    /\ used = queueMax

\* C7: when the used-list is empty, pop and dequeue return false, leave the
\* output location with the value it had, and leave the container as it was.
C7_EmptyRejects ==
    (op \in {"pop", "dequeue"} /\ PreUsedValues = <<>>) =>
        /\ ret_val = FALSE
        /\ out = pre.out
        /\ ContainerUnchanged

C7_Witness ==
    /\ op = "dequeue"
    /\ pre.op = "pop"
    /\ PreUsedValues = <<>>
    /\ ret_val = FALSE
    /\ out = pre.out
    /\ out # m_item[0]

\* A run of successful queue calls on an empty list has been followed by
\* as many successful dequeue calls, and by nothing else.
QueuedThenDequeued ==
    /\ mon = "drain"
    /\ FilledBy("queue")
    /\ Len(drun) = Len(fill)

\* C8 as stated: queue(v1), ..., queue(vk) on an empty list followed by k
\* dequeue calls returns v1, ..., vk in that order (FIFO).
C8_QueueDequeueFIFO ==
    QueuedThenDequeued => drun = FillValues

\* C8 amended: queue(v1), ..., queue(vk) on an empty list followed by k
\* dequeue calls returns vk, ..., v1, the reverse of the order queued.
C8_QueueDequeueLIFO ==
    QueuedThenDequeued => drun = Reverse(FillValues)

C8_Witness ==
    /\ QueuedThenDequeued
    /\ Len(fill) = queueMax
    /\ fill[1].v # fill[queueMax].v
    /\ drun = Reverse(FillValues)

\* C9: with at least one free slot, push(v) followed at once by pop returns
\* true both times, sets the output location to v, and leaves the used-list
\* sequence and m_usedCount as they were before the push.
C9_PushPop ==
    [][(op = "push" /\ PreFreeChain # <<>> /\ op' = "pop") =>
          /\ ret_val
          /\ ret_val'
          /\ out' = arg
          /\ UsedValues' = PreUsedValues
          /\ m_usedCount' = pre.m_usedCount]_vars

C9_Witness ==
    /\ op = "pop"
    /\ pre.op = "push"
    /\ pre.ret_val
    /\ ret_val
    /\ out = pre.arg
    /\ m_usedCount > 0
    /\ out # m_item[m_usedHead]

\* C10: dequeue on a non-empty list returns the value of the tail slot (the
\* last of the head-to-tail sequence, so the earliest pushed when only push
\* built the list), makes the tail's predecessor the new tail with a NULL
\* forward pointer, sets head and tail to NULL when the slot was the only
\* one; queue(v) followed at once by dequeue returns v.
C10_DequeueTail ==
    /\ (op = "dequeue" /\ PreUsedChain # <<>>) =>
          LET k == Len(PreUsedChain) IN
          /\ ret_val
          /\ out = pre.m_item[pre.m_usedTail]
          /\ out = PreUsedValues[k]
          /\ UsedChain = SubSeq(PreUsedChain, 1, k - 1)
          /\ IF k = 1
             THEN /\ m_usedHead = NULL
                  /\ m_usedTail = NULL
             ELSE /\ m_usedHead = pre.m_usedHead
                  /\ m_usedTail = PreUsedChain[k - 1]
                  /\ m_forward[m_usedTail] = NULL
    /\ (op = "dequeue" /\ mon = "drain" /\ FilledBy("push") /\ Len(drun) = 1) =>
          out = fill[1].v
    /\ (op = "dequeue" /\ pre.op = "queue" /\ pre.ret_val) =>
          /\ ret_val
          /\ out = pre.arg

C10_Witness ==
    /\ op = "dequeue"
    /\ ret_val
    /\ Len(PreUsedChain) = queueMax
    /\ m_usedTail = PreUsedChain[queueMax - 1]
    /\ mon = "drain"
    /\ FilledBy("push")
    /\ Len(drun) = 1
    /\ out = fill[1].v
    /\ out # fill[queueMax].v

\* Number of elements of the sequence s equal to v.
Occurrences(s, v) == Cardinality({k \in 1 .. Len(s) : s[k] = v})

\* C11: remove(v) on a list containing v returns true, deletes exactly the
\* occurrence of v nearest the head, keeps the other elements in order,
\* decrements m_usedCount by one, and inList(v) is true afterwards iff v
\* occurred more than once before the call.
C11_RemoveFirst ==
    (op = "remove" /\ Occurrences(PreUsedValues, arg) > 0) =>
        LET k == FirstIndex(PreUsedValues, arg) IN
        /\ ret_val
        /\ UsedChain = RemoveAt(PreUsedChain, k)
        /\ UsedValues = RemoveAt(PreUsedValues, k)
        /\ m_usedCount = pre.m_usedCount - 1
        /\ inList(arg) <=> (Occurrences(PreUsedValues, arg) > 1)

C11_Witness ==
    /\ op = "remove"
    /\ ret_val
    /\ Len(PreUsedValues) = queueMax
    /\ PreUsedValues[1] # arg
    /\ Occurrences(PreUsedValues, arg) > 1
    /\ inList(arg)
    /\ UsedValues[1] = PreUsedValues[1]

\* C12: remove(v) on a list without v (the empty list included) returns
\* false and leaves the container as it was: sequence, head, tail, free
\* stack and count.
C12_RemoveAbsent ==
    (op = "remove" /\ Occurrences(PreUsedValues, arg) = 0) =>
        /\ ret_val = FALSE
        /\ ContainerUnchanged
        /\ UsedValues = PreUsedValues
        /\ FreeChain = PreFreeChain

C12_Witness ==
    /\ op = "remove"
    /\ ret_val = FALSE
    /\ Len(PreUsedValues) > 1
    /\ Occurrences(PreUsedValues, arg) = 0
    /\ \E s \in Slots : m_item[s] = arg

\* C13: inList(v) returns true iff v is the value of a slot on the
\* used-list (inserted and not yet removed); stale values in free slots
\* never make it true; the call changes no container state.
C13_InListExact ==
    (op = "inList") =>
        /\ ret_val <=> (Occurrences(UsedValues, arg) > 0)
        /\ ret_val <=> (Occurrences(abs, arg) > 0)
        /\ ContainerUnchanged
        /\ out = pre.out

C13_Witness ==
    /\ op = "inList"
    /\ ret_val = FALSE
    /\ pre.op \in {"pop", "dequeue", "remove"}
    /\ pre.ret_val
    /\ m_item[m_freeHead] = arg
    /\ used > 0

\* The links that the default constructor builds.
DefaultLinks == [s \in Slots |-> IF s < queueMax - 1 THEN s + 1 ELSE NULL]

\* C17: clear() in any reachable state produces the default-constructed
\* linkage: head and tail NULL, count 0, free stack slot 0 -> slot 1 -> ...
\* -> slot queueMax-1 -> NULL (a pool of one slot included), with no
\* stored value altered.
C17_ClearIsDefault ==
    /\ (op = "clear") =>
          /\ m_usedHead = NULL
          /\ m_usedTail = NULL
          /\ m_usedCount = 0
          /\ m_freeHead = 0
          /\ m_forward = DefaultLinks
          /\ FreeChain = [k \in 1 .. queueMax |-> k - 1]
          /\ m_item = pre.m_item
          /\ \A g \in Garbage :
                LET D == ctor_default(m_item, g) IN
                /\ D.m_forward = m_forward
                /\ D.m_freeHead = m_freeHead
                /\ D.m_usedHead = m_usedHead
                /\ D.m_usedTail = m_usedTail
                /\ D.m_usedCount = m_usedCount
    /\ \A g \in {NULL, 0} :
          clear_loop([s \in {0} |-> g], 0, 0) = [s \in {0} |-> NULL]

C17_Witness ==
    /\ op = "clear"
    /\ pre.m_usedCount = queueMax
    /\ pre.m_usedHead # 0
    /\ pre.m_forward # DefaultLinks
    /\ m_forward = DefaultLinks

\* C19: pop, dequeue, remove and clear change no slot's stored value; a
\* successful push or queue changes the stored value of one slot only, the
\* one taken from the free stack, which then holds the value inserted.
C19_ValueFrame ==
    /\ (op \in {"pop", "dequeue", "remove", "clear"}) => m_item = pre.m_item
    /\ (op \in {"push", "queue"} /\ ret_val) =>
          /\ pre.m_freeHead # NULL
          /\ m_item[pre.m_freeHead] = arg
          /\ \A s \in Slots \ {pre.m_freeHead} : m_item[s] = pre.m_item[s]

C19_Witness ==
    /\ op = "queue"
    /\ ret_val
    /\ pre.op = "dequeue"
    /\ pre.ret_val
    /\ m_item[pre.m_freeHead] # pre.m_item[pre.m_freeHead]
    /\ pre.out = pre.m_item[pre.m_freeHead]

\* The slot that the last successful pop, dequeue or remove released.
Released ==
    IF op = "pop"
    THEN pre.m_usedHead
    ELSE IF op = "dequeue"
         THEN pre.m_usedTail
         ELSE PreUsedChain[FirstIndex(PreUsedValues, arg)]

\* C20: the free chain is reused LIFO: a successful pop, dequeue or remove
\* makes the released slot the new m_freeHead with its forward pointer on
\* the previous m_freeHead, and the next successful push or queue stores
\* its value in that slot.
C20_FreeLIFO ==
    [][/\ (op' \in {"pop", "dequeue", "remove"} /\ ret_val') =>
            /\ m_freeHead' = Released'
            /\ m_forward'[m_freeHead'] = m_freeHead
            /\ FreeChain' = <<Released'>> \o FreeChain
       /\ (op' \in {"push", "queue"} /\ ret_val') =>
            /\ m_item'[m_freeHead] = arg'
            /\ m_freeHead \in SeqRange(UsedChain')
            /\ FreeChain = <<m_freeHead>> \o FreeChain'
            /\ (op \in {"pop", "dequeue", "remove"} /\ ret_val) =>
                  m_item'[Released] = arg']_vars

C20_Witness ==
    /\ op = "push"
    /\ ret_val
    /\ pre.op = "remove"
    /\ pre.ret_val
    /\ m_usedHead = pre.m_freeHead
    /\ Len(PreFreeChain) > 1
    /\ pre.m_freeHead > pre.m_forward[pre.m_freeHead]

\* C14: constructing from K values on capacity queueMax gives used() =
\* min(K, queueMax) and available() = queueMax - min(K, queueMax), the
\* used-list holding the first min(K, queueMax) values in the order given
\* (first at the head, last consumed at the tail), the other slots on the
\* free stack in array order; values beyond queueMax are ignored and K = 0
\* gives the empty list.
C14_InitConstructor ==
    (op = "ctor_init") =>
        LET K == Len(init_items)
            n == IF K < queueMax THEN K ELSE queueMax
        IN
        /\ used = n
        /\ available = queueMax - n
        /\ UsedValues = SubSeq(init_items, 1, n)
        /\ UsedChain = [k \in 1 .. n |-> k - 1]
        /\ FreeChain = [k \in 1 .. (queueMax - n) |-> n + k - 1]
        /\ m_usedHead = (IF n > 0 THEN 0 ELSE NULL)
        /\ m_usedTail = (IF n > 0 THEN n - 1 ELSE NULL)
        /\ (K = 0) => (UsedValues = <<>> /\ m_freeHead = 0)

C14_Witness ==
    /\ op = "ctor_init"
    /\ Len(init_items) = queueMax + 1
    /\ init_items[queueMax + 1] # init_items[queueMax]
    /\ used = queueMax
    /\ m_item[m_usedTail] = init_items[queueMax]

\* C15: stepping a cursor from begin() until it equals end() visits exactly
\* used() elements, in head-to-tail order of the used-list, and begin()
\* equals end() iff used() = 0.
C15_Traversal ==
    /\ iter_eq(begin, end) <=> (used = 0)
    /\ it_valid =>
          /\ walk \o Chain(m_forward, it) = UsedChain
          /\ iter_eq(it, end) =>
                /\ Len(walk) = used
                /\ walk = UsedChain
                /\ [k \in 1 .. Len(walk) |-> m_item[walk[k]]] = UsedValues
          /\ (~iter_eq(it, end)) => Len(walk) < used

C15_Witness ==
    /\ it_valid
    /\ iter_eq(it, end)
    /\ op = "postinc"
    /\ Len(walk) = queueMax
    /\ walk[1] > walk[queueMax]
    /\ walk = UsedChain

\* C16: advancing a cursor that is already at end is a no-op for every
\* advance operation: pre-increment, post-increment and operator+= all
\* leave an end cursor at end without following any link.
C16_EndStaysEnd ==
    [][(iter_eq(it, end) /\ op' \in {"preinc", "postinc", "pluseq"}) =>
          /\ iter_eq(it', end)
          /\ ~crashed']_vars

\* Both threads have returned from their calls.
BothDone == \A t \in Threads : thr[t].pc = "done"

\* A slot is linked twice or lost, or the count is not the chain's length.
Corrupted ==
    \/ SeqRange(UsedChain) \cap SeqRange(FreeChain) # {}
    \/ SeqRange(UsedChain) \cup SeqRange(FreeChain) # Slots
    \/ Len(UsedChain) # Cardinality(SeqRange(UsedChain))
    \/ Len(FreeChain) # Cardinality(SeqRange(FreeChain))
    \/ m_usedCount # Len(UsedChain)

\* C18: two calls on one container (two pushes, or a push and a pop) whose
\* reads and writes interleave can both complete in a state where a slot
\* is linked twice or lost or m_usedCount differs from the used chain's
\* length (the witness); such a state arises only when the calls did
\* interleave: calls that ran one after the other leave the invariants
\* intact.
C18_CorruptionByInterleaving ==
    (BothDone /\ ~overlap) => (~Corrupted /\ ~crashed)

C18_Witness ==
    /\ BothDone
    /\ ~crashed
    /\ overlap
    /\ thr[1].m = "push"
    /\ thr[2].m = "pop"
    /\ thr[1].ret
    /\ thr[2].ret
    /\ Corrupted

\* C21: m_freeHead is NULL exactly when m_usedCount is queueMax; push and
\* queue return true exactly when available() was above zero before the
\* call and pop and dequeue exactly when used() was above zero; a call that
\* returned true moved used() by exactly one, up for push and queue, down
\* for pop and dequeue.
C21_ReturnsAndCount ==
    /\ (m_freeHead = NULL) <=> (m_usedCount = queueMax)
    /\ (pre.m_freeHead = NULL) <=> (pre.m_usedCount = queueMax)
    /\ op \in {"push", "queue"} =>
           /\ ret_val <=> (queueMax - pre.m_usedCount > 0)
           /\ ret_val => (used = pre.m_usedCount + 1)
    /\ op \in {"pop", "dequeue"} =>
           /\ ret_val <=> (pre.m_usedCount > 0)
           /\ ret_val => (used = pre.m_usedCount - 1)

C21_Witness ==
    /\ op = "queue"
    /\ pre.op = "dequeue"
    /\ pre.ret_val
    /\ ret_val
    /\ pre.m_usedCount = queueMax - 1
    /\ pre.m_freeHead # NULL
    /\ m_freeHead = NULL
    /\ used = queueMax
    /\ available = 0

\* A chain from p is acyclic: it reaches NULL without meeting a slot twice.
Acyclic(fwd, p) ==
    LET c == Chain(fwd, p) IN
    /\ Len(c) <= queueMax
    /\ Len(c) = Cardinality(SeqRange(c))

\* C22: the used chain and the free chain are acyclic; the scans of
\* remove_node (as dequeue calls it, on the tail), remove and inList end
\* after visiting at most m_usedCount slots, whatever value is looked for;
\* and when the list holds more than one element the scan of remove_node
\* finds the slot before the tail, which dequeue makes the new tail.
C22_ScansTerminate ==
    /\ Acyclic(m_forward, m_usedHead)
    /\ Acyclic(m_forward, m_freeHead)
    /\ \A v \in Values \cup {0} :
          /\ remove_visits(m_usedHead, v, queueMax + 1) <= m_usedCount
          /\ inList_visits(m_usedHead, v, queueMax + 1) <= m_usedCount
    /\ m_usedTail # NULL => remove_node_cost(m_usedTail) <= m_usedCount
    /\ m_usedCount > 1 =>
          LET p == find_preceding(m_forward, m_usedHead, m_usedTail) IN
          /\ p # NULL
          /\ m_forward[p] = m_usedTail
          /\ p = UsedChain[Len(UsedChain) - 1]
    /\ (op = "dequeue" /\ pre.m_usedCount > 1) =>
          /\ m_usedTail = PreUsedChain[Len(PreUsedChain) - 1]
          /\ m_forward[m_usedTail] = NULL

C22_Witness ==
    /\ op = "dequeue"
    /\ ret_val
    /\ pre.m_usedCount = queueMax
    /\ m_usedCount = queueMax - 1
    /\ m_usedCount > 1
    /\ remove_node_cost(m_usedTail) = m_usedCount - 1
    /\ \E v \in Values : /\ ~inList(v)
                         /\ inList_visits(m_usedHead, v, queueMax + 1) = m_usedCount
                         /\ remove_visits(m_usedHead, v, queueMax + 1) = m_usedCount

\* The cursor on element i (0-based) of the used chain c; end from Len(c) on.
CursorAt(c, i) == IF i < Len(c) THEN c[i + 1] ELSE end

\* Cursors on positions of the used-list, end included, compare equal with
\* operator== exactly when the positions are the same, that is when they
\* are on the same slot or both at end; operator!= is the opposite.
CursorEquality ==
    \A i, j \in 0 .. Len(UsedChain) :
        LET a == CursorAt(UsedChain, i)
            b == CursorAt(UsedChain, j)
        IN
        /\ iter_eq(a, b) <=> (i = j)
        /\ iter_eq(a, b) <=> ((a \in Slots /\ b \in Slots /\ a = b) \/ (a = end /\ b = end))
        /\ iter_ne(a, b) <=> ~iter_eq(a, b)

\* operator+=(n) on a cursor that is on element i of a used-list of k
\* elements, or at end (i = k), leaves it on element i + n when i + n < k
\* and at end otherwise, without undefined behaviour.
PlusEqLands ==
    (op' = "pluseq" /\ ~crashed /\ it \in SeqRange(UsedChain) \cup {end}) =>
        LET k == Len(UsedChain)
            i == IF it = end THEN k ELSE FirstIndex(UsedChain, it) - 1
            n == arg'
        IN
        /\ UsedChain' = UsedChain
        /\ ~crashed'
        /\ it' = CursorAt(UsedChain, i + n)
        /\ (i + n < k) => (it' \in Slots /\ FirstIndex(UsedChain, it') - 1 = i + n)
        /\ (i + n >= k) => iter_eq(it', end)

\* C23: operator+=(n) moves a cursor from element i to element i + n of a
\* used-list of k elements when i + n < k and to end when i + n >= k,
\* never past end; two cursors compare equal exactly when they are on the
\* same slot or both at end.
C23_PlusEqAndEquality == [][PlusEqLands]_vars /\ []CursorEquality

C23_Witness ==
    /\ op = "pluseq"
    /\ arg = 1
    /\ it_valid
    /\ ~crashed
    /\ Len(UsedChain) = queueMax
    /\ Len(walk) = queueMax - 1
    /\ it = UsedChain[queueMax]
    /\ iter_eq(it, m_usedTail)
    /\ iter_ne(it, begin)
    /\ iter_ne(it, end)

====
